---- MODULE Spec2Model ----
(***************************************************************************)
(* Model of the ICON SDK tutorial scripts: the Balanced pool scan          *)
(* (query_balanced_pool_data) of projects 2 and 3, and the nonce generator *)
(* (_generate_nonce) of the transaction scripts.                           *)
(*                                                                         *)
(* Python values are tagged records:                                       *)
(*   str    [t |-> "str",   s |-> sequence of one-character strings]       *)
(*   None   [t |-> "none"]                                                 *)
(*   int    [t |-> "int",   n |-> decimal digits, most significant first]  *)
(*   float  [t |-> "float", m |-> digits, e |-> exponent]  = m * 10^(-e)   *)
(* An int is arbitrary precision, as in Python.  A float is kept as the    *)
(* exact quotient in lowest decimal form; Python stores the double nearest *)
(* to that quotient.                                                       *)
(***************************************************************************)
EXTENDS Integers, Sequences, FiniteSets, TLC

VARIABLES
    node,        \* the remote contract: pool id -> record or exception
    invocation,  \* how many times query_balanced_pool_data has been entered
    pc,          \* position inside query_balanced_pool_data
    pools,       \* local list `pools`
    pool_id,     \* local `pool_id`
    result,      \* local dict `result`
    queries,     \* pool ids passed to call() by the current invocation, in order
    outstanding, \* number of calls issued and not yet answered
    returned,    \* value returned by the current invocation (NoValue before)
    error,       \* exception that left the current invocation (NoValue if none)
    prev,        \* what the previous invocation issued and how it ended
    npc,         \* position inside _generate_nonce
    digits,      \* the list built by the comprehension of _generate_nonce
    nonce        \* local `nonce` of _generate_nonce

vars == <<node, invocation, pc, pools, pool_id, result, queries, outstanding,
          returned, error, prev, npc, digits, nonce>>

scanVars == <<node, invocation, pc, pools, pool_id, result, queries,
              outstanding, returned, error, prev>>

nonceVars == <<npc, digits, nonce>>

\* ------------------------------------------------------------------ bounds

\* Pool ids the modelled node knows how to answer; call() is not issued beyond.
MaxPoolId == 3

\* Number of invocations of query_balanced_pool_data in one run.
MaxInvocations == 2

\* ------------------------------------------------------- program constants

\* int(v, 16)
HexBase == 16

\* precision = int((quote_decimals - base_decimals) + 18)
PrecisionOffset == 18

\* 10**base_decimals, 10**quote_decimals, 10**precision
DecimalBase == 10

\* range(4) in _generate_nonce
NonceDigits == 4

\* randint(0, 9) in _generate_nonce
MaxDigit == 9

\* pool_id = 1
FirstPoolId == 1

\* ---------------------------------------------------------- Python values

NoValue == [t |-> "unset"]

None == [t |-> "none"]

Str(chars) == [t |-> "str", s |-> chars]

PyInt(ds) == [t |-> "int", n |-> ds]

IsStr(v) == v.t = "str"

IsInt(v) == v.t = "int"

Front(s) == SubSeq(s, 1, Len(s) - 1)

Last(s) == s[Len(s)]

\* Digits of a small natural number, most significant first; 0 is <<>>.
RECURSIVE NatDigits(_)
NatDigits(c) ==
    IF c = 0 THEN <<>> ELSE NatDigits(c \div DecimalBase) \o <<c % DecimalBase>>

\* n * k + c on digit sequences (k, c small).
RECURSIVE MulAdd(_, _, _)
MulAdd(n, k, c) ==
    IF n = <<>> THEN NatDigits(c)
    ELSE LET t == Last(n) * k + c
         IN  MulAdd(Front(n), k, t \div DecimalBase) \o <<t % DecimalBase>>

\* The machine integer of a short digit sequence (used for exponents).
RECURSIVE ToInt(_)
ToInt(n) == IF n = <<>> THEN 0 ELSE ToInt(Front(n)) * DecimalBase + Last(n)

HexChars ==
    <<"0","1","2","3","4","5","6","7","8","9","a","b","c","d","e","f">>

UpperHexChars ==
    <<"0","1","2","3","4","5","6","7","8","9","A","B","C","D","E","F">>

IsHexChar(c) ==
    \E i \in 1..HexBase : HexChars[i] = c \/ UpperHexChars[i] = c

HexCharVal(c) ==
    (CHOOSE i \in 1..HexBase : HexChars[i] = c \/ UpperHexChars[i] = c) - 1

\* v.startswith("0x") for a str v
StartsWith0x(chars) == Len(chars) >= 2 /\ chars[1] = "0" /\ chars[2] = "x"

\* Whether int(v, 16) accepts the string (which starts with "0x").
HexParseable(chars) ==
    /\ Len(chars) > 2
    /\ \A i \in 3..Len(chars) : IsHexChar(chars[i])

RECURSIVE HexFold(_, _)
HexFold(chars, acc) ==
    IF chars = <<>> THEN acc
    ELSE HexFold(Tail(chars), MulAdd(acc, HexBase, HexCharVal(Head(chars))))

\* int(v, 16) for a parseable string with the 0x prefix.
IntBase16(chars) == PyInt(HexFold(SubSeq(chars, 3, Len(chars)), <<>>))

\* a / 10**e for an int a with digits n: the quotient n * 10^(-e), with the
\* low-order zeros of n moved into the exponent so equal values are equal.
RECURSIVE TrueDivPow10(_, _)
TrueDivPow10(n, e) ==
    IF n = <<>> THEN [t |-> "float", m |-> <<>>, e |-> 0]
    ELSE IF Last(n) = 0 THEN TrueDivPow10(Front(n), e - 1)
    ELSE [t |-> "float", m |-> n, e |-> e]

\* ------------------------------------------------------------- exceptions

Exc(cls, msg) == [cls |-> cls, msg |-> msg]

\* JSONRPCException raised because the pool id does not exist.
NotFound == Exc("JSONRPCException", "pool not found")

\* JSONRPCException raised "in other situations" (server side error).
ServerError == Exc("JSONRPCException", "server error")

\* An exception of the transport that is no JSONRPCException.
TransportError == Exc("ConnectionError", "connection refused")

Raises(e) == [ok |-> FALSE, exc |-> e]

Returns(v) == [ok |-> TRUE, val |-> v]

\* ----------------------------------------------------------- pool records

\* The fields the scan divides, in the order of the five assignments.
ScaledFields == <<"base", "quote", "price", "min_quote", "total_supply">>

\* The record shown in the comment of query_balanced_pool_data (pool sICX/bnUSD).
DocRecord ==
    [ base |-> Str(<<"0","x","2","4","4","0","1","c","4","c","0","b","0","e","a","f","0","b","d","3","7","3","6">>),
      base_decimals |-> Str(<<"0","x","1","2">>),
      base_token |-> Str(<<"c","x","2","6","0","9","b","9","2","4","e","3","3","e","f","0","0","b","6","4","8","a","4","0","9","2","4","5","c","7","e","a","3","9","4","c","4","6","7","8","2","4">>),
      min_quote |-> Str(<<"0","x","8","a","c","7","2","3","0","4","8","9","e","8","0","0","0","0">>),
      name |-> Str(<<"s","I","C","X","/","b","n","U","S","D">>),
      price |-> Str(<<"0","x","2","d","4","9","f","7","6","8","f","b","1","b","9","2","d">>),
      quote |-> Str(<<"0","x","7","6","4","c","d","1","9","f","9","9","5","e","9","6","e","a","3","9","4","8">>),
      quote_decimals |-> Str(<<"0","x","1","2">>),
      quote_token |-> Str(<<"c","x","8","8","f","d","7","d","f","7","d","d","f","f","8","2","f","7","c","c","7","3","5","c","8","7","1","d","c","5","1","9","8","3","8","c","b","2","3","5","b","b">>),
      total_supply |-> Str(<<"0","x","d","f","8","d","7","9","f","7","8","f","8","c","d","9","2","d","a","4","9","6">>) ]

\* A pool whose two tokens have different decimals (2 and 3) and whose name
\* is null in the JSON answer, a value that is not a string.
SmallRecord ==
    [ base |-> Str(<<"0","x","1","f","4">>),
      base_decimals |-> Str(<<"0","x","2">>),
      base_token |-> Str(<<"c","x","0","1">>),
      min_quote |-> Str(<<"0","x","6","4">>),
      name |-> None,
      price |-> Str(<<"0","x","2","E","E">>),
      quote |-> Str(<<"0","x","7","d","0">>),
      quote_decimals |-> Str(<<"0","x","3">>),
      quote_token |-> Str(<<"c","x","0","2">>),
      total_supply |-> Str(<<"0","x","3","e","8">>) ]

\* price starts with 0x and is not base 16.
BadHexRecord == [SmallRecord EXCEPT !.price = Str(<<"0","x","z","z">>)]

Without(rec, k) == [f \in DOMAIN rec \ {k} |-> rec[f]]

\* No base_decimals field.
NoDecimalsRecord == Without(SmallRecord, "base_decimals")

\* No total_supply field.
NoSupplyRecord == Without(SmallRecord, "total_supply")

WellFormedRecords == {DocRecord, SmallRecord}

MalformedRecords == {BadHexRecord, NoDecimalsRecord, NoSupplyRecord}

Records == WellFormedRecords \cup MalformedRecords

Failures == {NotFound, ServerError, TransportError}

\* What ICON_SERVICE.call can do for one pool id.
Outcomes == {Returns(r) : r \in Records} \cup {Raises(e) : e \in Failures}

\* ----------------------------------------------------------- normalization

\* Variant of ConvertValue: the prefix test made on str(v), the else branch
\* storing that string back.
ConvertValueStr(v) ==
    IF IsStr(v)
    THEN IF StartsWith0x(v.s) THEN IntBase16(v.s) ELSE v
    ELSE Str(<<"N","o","n","e">>)

\* Body of the for loop for one value: a str starting with 0x becomes
\* int(v, 16); v.startswith on a value that is no str raises AttributeError,
\* which the inner except swallows.
ConvertValue(v) ==
    IF IsStr(v) /\ StartsWith0x(v.s) THEN IntBase16(v.s) ELSE v

\* The loop "for k, v in result.items()": int(v, 16) raises ValueError on the
\* first value it cannot parse, and only AttributeError is caught there.
ConvertHex(rec) ==
    IF \E k \in DOMAIN rec :
          IsStr(rec[k]) /\ StartsWith0x(rec[k].s) /\ ~HexParseable(rec[k].s)
    THEN Raises(Exc("ValueError", "invalid literal for int() with base 16"))
    ELSE Returns([k \in DOMAIN rec |-> ConvertValue(rec[k])])

\* Variant of Precision: the two decimals exchanged.
PrecisionSwapped(quote_decimals, base_decimals) ==
    (base_decimals - quote_decimals) + PrecisionOffset

\* precision = int((quote_decimals - base_decimals) + 18)
Precision(quote_decimals, base_decimals) ==
    (quote_decimals - base_decimals) + PrecisionOffset

\* The exponent each of the five divisions uses.
ExponentOf(k, base_decimals, quote_decimals) ==
    CASE k = "base"         -> base_decimals
      [] k = "quote"        -> quote_decimals
      [] k = "price"        -> Precision(quote_decimals, base_decimals)
      [] k = "min_quote"    -> quote_decimals
      [] k = "total_supply" -> quote_decimals

\* Variant of FirstBadDivision: a field the record lacks is passed over, as
\* with a division guarded by "if k in result".
FirstBadDivisionLenient(rec) ==
    LET bad == {i \in 1..Len(ScaledFields) :
                   /\ ScaledFields[i] \in DOMAIN rec
                   /\ ~IsInt(rec[ScaledFields[i]])}
    IN  IF bad = {} THEN 0 ELSE CHOOSE i \in bad : \A j \in bad : i <= j

\* The first of the five divisions that raises, 0 if none does.
FirstBadDivision(rec) ==
    LET bad == {i \in 1..Len(ScaledFields) :
                   \/ ScaledFields[i] \notin DOMAIN rec
                   \/ ~IsInt(rec[ScaledFields[i]])}
    IN  IF bad = {} THEN 0 ELSE CHOOSE i \in bad : \A j \in bad : i <= j

\* From "base_decimals = result[...]" to the fifth division.
Scale(rec) ==
    IF "base_decimals" \notin DOMAIN rec
    THEN Raises(Exc("KeyError", "base_decimals"))
    ELSE IF "quote_decimals" \notin DOMAIN rec
    THEN Raises(Exc("KeyError", "quote_decimals"))
    ELSE IF ~(IsInt(rec.base_decimals) /\ IsInt(rec.quote_decimals))
    THEN Raises(Exc("TypeError", "unsupported operand type(s) for -"))
    ELSE LET bd  == ToInt(rec.base_decimals.n)
             qd  == ToInt(rec.quote_decimals.n)
             bad == FirstBadDivision(rec)
         IN  IF bad # 0
             THEN IF ScaledFields[bad] \notin DOMAIN rec
                  THEN Raises(Exc("KeyError", ScaledFields[bad]))
                  ELSE Raises(Exc("TypeError", "unsupported operand type(s) for /"))
             ELSE Returns(
                    [k \in DOMAIN rec |->
                       IF \E i \in 1..Len(ScaledFields) : ScaledFields[i] = k
                       THEN TrueDivPow10(rec[k].n, ExponentOf(k, bd, qd))
                       ELSE rec[k]])

\* Both steps on one raw record, as the loop body applies them.
Normalize(rec) ==
    LET c == ConvertHex(rec) IN IF c.ok THEN Scale(c.val) ELSE c

\* ------------------------------------------------- query_balanced_pool_data

\* Variant of Caught: "except Exception".
CaughtAll(exc) == TRUE

\* "except JSONRPCException": the one handler around the loop body.
Caught(exc) == exc.cls = "JSONRPCException"

\* Variant of FreshPools: the list kept at module level, never emptied.
StalePools == pools

\* pools = []
FreshPools == <<>>

\* An exception raised inside the try: caught, the loop breaks; otherwise it
\* leaves the function.
HandleException(exc) ==
    IF Caught(exc)
    THEN pc' = "break" /\ error' = error
    ELSE pc' = "raised" /\ error' = exc

\* What an invocation leaves behind for whoever looks at the next one.
Ended == [queries |-> queries, pc |-> pc, returned |-> returned, error |-> error]

\* Entry of query_balanced_pool_data: pools = [] and pool_id = 1.
Invoke ==
    /\ pc \in {"idle", "returned", "raised"}
    /\ invocation < MaxInvocations
    /\ invocation' = invocation + 1
    /\ prev' = IF invocation = 0 THEN NoValue ELSE Ended
    /\ pools' = FreshPools
    /\ pool_id' = FirstPoolId
    /\ result' = NoValue
    /\ queries' = <<>>
    /\ returned' = NoValue
    /\ error' = NoValue
    /\ pc' = "loop"
    /\ UNCHANGED <<node, outstanding, nonceVars>>

\* Variant of Query: "while pool_id <= 2" in place of "while True".
QueryBounded ==
    /\ pc = "loop"
    /\ pool_id <= MaxPoolId
    /\ IF pool_id <= 2
       THEN /\ queries' = Append(queries, pool_id)
            /\ outstanding' = outstanding + 1
            /\ pc' = "waiting"
       ELSE /\ pc' = "break"
            /\ UNCHANGED <<queries, outstanding>>
    /\ UNCHANGED <<node, invocation, pools, pool_id, result, returned, error,
                   prev, nonceVars>>

\* "while True: result = call(..., {"_id": pool_id})": the request leaves.
Query ==
    /\ pc = "loop"
    /\ pool_id <= MaxPoolId
    /\ queries' = Append(queries, pool_id)
    /\ outstanding' = outstanding + 1
    /\ pc' = "waiting"
    /\ UNCHANGED <<node, invocation, pools, pool_id, result, returned, error,
                   prev, nonceVars>>

\* call() comes back with the record of the queried id, or raises.
Respond ==
    /\ pc = "waiting"
    /\ outstanding' = outstanding - 1
    /\ LET r == node[Last(queries)]
       IN  IF r.ok
           THEN result' = r.val /\ pc' = "convert" /\ error' = error
           ELSE result' = result /\ HandleException(r.exc)
    /\ UNCHANGED <<node, invocation, pools, pool_id, queries, returned, prev,
                   nonceVars>>

\* The loop converting hexadecimal strings to integers.
ConvertStep ==
    /\ pc = "convert"
    /\ LET c == ConvertHex(result)
       IN  IF c.ok
           THEN result' = c.val /\ pc' = "scale" /\ error' = error
           ELSE result' = result /\ HandleException(c.exc)
    /\ UNCHANGED <<node, invocation, pools, pool_id, queries, outstanding,
                   returned, prev, nonceVars>>

\* The decimals, the precision and the five divisions.
ScaleStep ==
    /\ pc = "scale"
    /\ LET c == Scale(result)
       IN  IF c.ok
           THEN result' = c.val /\ pc' = "append" /\ error' = error
           ELSE result' = result /\ HandleException(c.exc)
    /\ UNCHANGED <<node, invocation, pools, pool_id, queries, outstanding,
                   returned, prev, nonceVars>>

\* Variant of AppendStep: pools.insert(0, result).
AppendStepPrepend ==
    /\ pc = "append"
    /\ pools' = <<result>> \o pools
    /\ pool_id' = pool_id + 1
    /\ pc' = "loop"
    /\ UNCHANGED <<node, invocation, result, queries, outstanding, returned,
                   error, prev, nonceVars>>

\* Variant of AppendStep: pool_id += 2.
AppendStepSkip ==
    /\ pc = "append"
    /\ pools' = Append(pools, result)
    /\ pool_id' = pool_id + 2
    /\ pc' = "loop"
    /\ UNCHANGED <<node, invocation, result, queries, outstanding, returned,
                   error, prev, nonceVars>>

\* Variant of AppendStep: pools = [result].
AppendStepAssign ==
    /\ pc = "append"
    /\ pools' = <<result>>
    /\ pool_id' = pool_id + 1
    /\ pc' = "loop"
    /\ UNCHANGED <<node, invocation, result, queries, outstanding, returned,
                   error, prev, nonceVars>>

\* pools.append(result); pool_id += 1
AppendStep ==
    /\ pc = "append"
    /\ pools' = Append(pools, result)
    /\ pool_id' = pool_id + 1
    /\ pc' = "loop"
    /\ UNCHANGED <<node, invocation, result, queries, outstanding, returned,
                   error, prev, nonceVars>>

\* After the break: return pools
Return ==
    /\ pc = "break"
    /\ returned' = pools
    /\ pc' = "returned"
    /\ UNCHANGED <<node, invocation, pools, pool_id, result, queries,
                   outstanding, error, prev, nonceVars>>

\* --------------------------------------------------------- _generate_nonce

DecChars == <<"0","1","2","3","4","5","6","7","8","9">>

\* str(d) for d in 0..9
StrOfDigit(d) == DecChars[d + 1]

DecCharVal(c) == (CHOOSE i \in 1..DecimalBase : DecChars[i] = c) - 1

\* int(s) for a string of decimal digits: leading zeros carry no value.
RECURSIVE IntBase10Fold(_, _)
IntBase10Fold(chars, acc) ==
    IF chars = <<>> THEN acc
    ELSE IntBase10Fold(Tail(chars), MulAdd(acc, DecimalBase, DecCharVal(Head(chars))))

IntBase10(chars) == PyInt(IntBase10Fold(chars, <<>>))

\* One turn of the comprehension: str(randint(0, 9)).
RandDigit ==
    /\ npc = "comprehension"
    /\ Len(digits) < NonceDigits
    /\ \E d \in 0..MaxDigit : digits' = Append(digits, StrOfDigit(d))
    /\ UNCHANGED <<npc, nonce, scanVars>>

\* nonce = int("".join([...])); return nonce
JoinInt ==
    /\ npc = "comprehension"
    /\ Len(digits) = NonceDigits
    /\ nonce' = IntBase10(digits)
    /\ npc' = "done"
    /\ UNCHANGED <<digits, scanVars>>

\* ----------------------------------------------------------- specifications

ScanIdle ==
    /\ invocation = 0
    /\ pc = "idle"
    /\ pools = <<>>
    /\ pool_id = FirstPoolId
    /\ result = NoValue
    /\ queries = <<>>
    /\ outstanding = 0
    /\ returned = NoValue
    /\ error = NoValue
    /\ prev = NoValue

Init ==
    /\ node \in [1..MaxPoolId -> Outcomes]
    /\ ScanIdle
    /\ npc = "idle"
    /\ digits = <<>>
    /\ nonce = NoValue

Next ==
    \/ Invoke
    \/ Query
    \/ Respond
    \/ ConvertStep
    \/ ScaleStep
    \/ AppendStep
    \/ Return

Spec == Init /\ [][Next]_vars

\* An invocation under way has a next statement to run (call() is not issued
\* beyond the pool ids the node models).
Running ==
    \/ pc \in {"waiting", "convert", "scale", "append", "break"}
    \/ pc = "loop" /\ pool_id <= MaxPoolId

\* The step from one statement of the function to the next.
Advance ==
    /\ Running
    /\ \E p \in {"loop", "waiting", "convert", "scale", "append", "break",
                 "returned", "raised"} \ {pc} : pc' = p

\* The interpreter keeps running an invocation under way, and call() comes
\* back; nothing obliges the caller to invoke the function again.
FairSpec == Spec /\ WF_pc(Advance)

NonceInit ==
    /\ node = [i \in 1..MaxPoolId |-> Raises(NotFound)]
    /\ ScanIdle
    /\ npc = "comprehension"
    /\ digits = <<>>
    /\ nonce = NoValue

NonceNext ==
    \/ RandDigit
    \/ JoinInt

NonceSpec == NonceInit /\ [][NonceNext]_vars

\* ------------------------------------------------------------------ claims

Terminated == pc \in {"returned", "raised"}

IsPrefix(s, t) == Len(s) <= Len(t) /\ SubSeq(t, 1, Len(s)) = s

\* The value of a hexadecimal field of a raw record, as digits.
HexDigitsOf(v) == IntBase16(v.s).n

\* The normalization of each well-formed record of the model.
NormalizedOf == [r \in WellFormedRecords |-> Normalize(r).val]

\* C1: against a node that answers pool ids 1..N with well-formed records and
\* raises NotFound for N+1, a finished scan has returned exactly N records,
\* the i-th being the normalization of the record of pool id i (none for N = 0).
C1_ScanReturnsNormalizedPrefix ==
    \A N \in 0..(MaxPoolId - 1) :
        ( /\ \A i \in 1..N : node[i].ok /\ node[i].val \in WellFormedRecords
          /\ node[N + 1] = Raises(NotFound)
          /\ Terminated )
        => /\ pc = "returned"
           /\ Len(returned) = N
           /\ \A i \in 1..N : returned[i] = NormalizedOf[node[i].val]

C1_Witness ==
    /\ pc = "returned"
    /\ node[3] = Raises(NotFound)
    /\ Len(returned) = 2
    /\ returned[1] # returned[2]

C1_WitnessEmpty ==
    /\ pc = "returned"
    /\ node[1] = Raises(NotFound)
    /\ returned = <<>>

C3_MalformedRecordIsFatal ==
    \A k \in 1..MaxPoolId :
        ( /\ Len(queries) >= k
          /\ node[k].ok
          /\ node[k].val \in MalformedRecords
          /\ ~(pc = "waiting" /\ Len(queries) = k) )
        => /\ Len(queries) = k
           /\ Len(pools) = k - 1
           /\ pc \in {"convert", "scale", "raised"}
           /\ returned = NoValue
           /\ pc = "raised" => error.cls \in {"ValueError", "KeyError"}

C3_Witness ==
    /\ pc = "raised"
    /\ error = Exc("KeyError", "total_supply")
    /\ Len(pools) = 1
    /\ node[3].ok

\* C4: the k-th query carries pool id k, at most one query is outstanding, and
\* a query is outstanding only when every earlier query has been answered,
\* normalized and appended.
C4_SequentialAscendingQueries ==
    /\ queries = [i \in 1..Len(queries) |-> i]
    /\ outstanding \in {0, 1}
    /\ outstanding = 1 <=> pc = "waiting"
    /\ pc = "waiting" => Len(pools) = Len(queries) - 1
    /\ pc = "loop" => Len(pools) = Len(queries) /\ pool_id = Len(queries) + 1
    /\ Len(queries) - Len(pools) \in {0, 1}

C4_Witness ==
    /\ pc = "waiting"
    /\ queries = <<1, 2, 3>>
    /\ Len(pools) = 2

\* The five quotients the claim names, for each well-formed raw record.
QuotientOf ==
    [raw \in WellFormedRecords |->
       LET bd == ToInt(HexDigitsOf(raw.base_decimals))
           qd == ToInt(HexDigitsOf(raw.quote_decimals))
       IN  [ base         |-> TrueDivPow10(HexDigitsOf(raw.base), bd),
             quote        |-> TrueDivPow10(HexDigitsOf(raw.quote), qd),
             price        |-> TrueDivPow10(HexDigitsOf(raw.price), (qd - bd) + 18),
             min_quote    |-> TrueDivPow10(HexDigitsOf(raw.min_quote), qd),
             total_supply |-> TrueDivPow10(HexDigitsOf(raw.total_supply), qd) ]]

\* C5: every appended record has base = int(base) / 10^base_decimals,
\* quote = int(quote) / 10^quote_decimals, price = int(price) / 10^precision
\* with precision = (quote_decimals - base_decimals) + 18, and min_quote and
\* total_supply divided by 10^quote_decimals, the decimals being those of the
\* record itself; the documented pool has min_quote exactly 10 and price
\* 203963214704261421 / 10^18.
C5_ScaledByOwnDecimals ==
    \A i \in 1..Len(pools) :
        LET raw == node[i].val
            n   == pools[i]
        IN  /\ raw \in WellFormedRecords
            /\ \A j \in 1..Len(ScaledFields) :
                  n[ScaledFields[j]] = QuotientOf[raw][ScaledFields[j]]
            /\ raw = DocRecord =>
                 /\ n.min_quote = [t |-> "float", m |-> <<1>>, e |-> -1]
                 /\ n.price = [t |-> "float", e |-> 18,
                               m |-> <<2,0,3,9,6,3,2,1,4,7,0,4,2,6,1,4,2,1>>]
            /\ raw = SmallRecord =>
                 /\ n.base = [t |-> "float", m |-> <<5>>, e |-> 0]
                 /\ n.price = [t |-> "float", m |-> <<7, 5>>, e |-> 18]

C5_Witness ==
    /\ Len(pools) = 2
    /\ node[1].val = DocRecord
    /\ node[2].val = SmallRecord

\* C6: in every appended record the field names are those of the raw record,
\* every field whose raw value is no string or does not start with 0x keeps
\* its raw value, and base_decimals and quote_decimals are the integers their
\* hexadecimal strings denote, undivided.
C6_OnlyHexFieldsChange ==
    \A i \in 1..Len(pools) :
        LET raw == node[i].val
            n   == pools[i]
        IN  /\ DOMAIN n = DOMAIN raw
            /\ \A k \in DOMAIN raw :
                 (~IsStr(raw[k]) \/ ~StartsWith0x(raw[k].s)) => n[k] = raw[k]
            /\ n.base_decimals = PyInt(HexDigitsOf(raw.base_decimals))
            /\ n.quote_decimals = PyInt(HexDigitsOf(raw.quote_decimals))
            /\ raw = DocRecord => n.base_decimals = PyInt(<<1, 8>>)

C6_Witness ==
    /\ Len(pools) = 2
    /\ node[1].val = SmallRecord
    /\ pools[1].name = None
    /\ node[2].val = DocRecord
    /\ pools[2].name = DocRecord.name

\* C7: every invocation starts from an empty list and pool id 1, and a second
\* invocation against the same node issues the queries of the first and ends
\* as the first did, with an equal result holding one record per answered query.
C7_NoStateBetweenInvocations ==
    /\ (pc = "loop" /\ queries = <<>>) => (pools = <<>> /\ pool_id = 1)
    /\ (invocation >= 2 /\ Terminated) =>
          /\ queries = prev.queries
          /\ pc = prev.pc
          /\ returned = prev.returned
          /\ error = prev.error
    /\ pc = "returned" => Len(returned) = Len(queries) - 1

C7_Witness ==
    /\ invocation = 2
    /\ pc = "returned"
    /\ Len(returned) = 2
    /\ prev.returned = returned

\* C8: within one invocation every step leaves the records already appended
\* in place: the list before the step is a prefix of the list after it.
C8_PoolsAppendOnly ==
    [][invocation' = invocation => IsPrefix(pools, pools')]_vars

C8_Witness ==
    /\ pc = "returned"
    /\ Len(pools) = 2
    /\ pools[1] # pools[2]
    /\ node[3] = Raises(ServerError)

SomeLaterFailure == \E i \in pool_id..MaxPoolId : ~node[i].ok

AllSucceed ==
    \A i \in 1..MaxPoolId : node[i].ok /\ node[i].val \in WellFormedRecords

C9_WitnessRunsOn ==
    /\ AllSucceed
    /\ pc = "loop"
    /\ pool_id = MaxPoolId + 1

\* C10: the nonce returned by _generate_nonce has exactly four decimal digits.
C10_NonceHasFourDigits ==
    npc = "done" => ToInt(nonce.n) \in 1000..9999

====
